---- MODULE Spec2Model ----
(***************************************************************************)
(* RedisStorage of aiohttp_session/redis_storage.py: load_session reads    *)
(* the session cookie, GETs "{cookie_name}_{key}" and decodes it;          *)
(* save_session (re)issues the cookie and SETEXes the encoded session.     *)
(* An optional Python value (Optional[T]) is a set with at most one        *)
(* element: None is {}, a present value x is {x}.                          *)
(***************************************************************************)
EXTENDS Integers, Sequences, FiniteSets, TLC

VARIABLES
    max_age,      \* self.max_age, fixed at construction
    store,        \* the key-value store: record name -> optional [value, ttl]
    keysIssued,   \* number of calls of key_factory so far
    pc,           \* position of each request in its load/handler/save cycle
    reqCookie,    \* the session cookie each request carries (load_cookie's result)
    session,      \* the Session each request holds
    respCookie,   \* the cookie set on each request's response
    key,          \* save_session's local `key`
    calls,        \* store operations each request has issued, in order
    err,          \* the exception each request's call raised, if any
    lastSave,     \* history: the last completed save, while the store is untouched since
    readBack,     \* history: requests whose session was loaded from lastSave's cookie
    aioredis,     \* the installed aioredis: None, or its version
    storage,      \* the RedisStorage object: "unbuilt", "ready", "failed" or "deleted"
    redis,        \* self._redis: what the constructor kept of its redis_pool argument
    closed,       \* whether close() has run on the client the host application shares
    held,         \* requests inside `async with await self._redis as conn`
    block         \* where each request is in that block: "out" of it, inside with its
                  \* store call "pending", or inside with the call "answered"

\* the storage object and the client it was given
life == <<aioredis, storage, redis, closed>>

\* the connections taken and the calls awaited
conn == <<held, block>>

vars == <<max_age, store, keysIssued, pc, reqCookie, session, respCookie,
          key, calls, err, lastSave, readBack, life, conn>>

---------------------------------------------------------------------------
(* Bounds *)

MaxKeys == 2        \* keys key_factory can still produce
MaxAge == 2         \* largest max_age, in seconds
MaxVal == 1         \* largest value stored under a session key
MaxSaves == 2       \* save_session calls on one request's session

---------------------------------------------------------------------------
(* Optional values *)

None == {}
Some(x) == {x}
The(o) == CHOOSE x \in o : TRUE

---------------------------------------------------------------------------
(* Configuration *)

Reqs == {"r1", "r2"}

\* the request slot of a client that sends one request at a time
SeqReqs == {"r1"}

cookie_name == "AIOHTTP_SESSION"

Digits == <<"0", "1", "2", "3", "4", "5", "6", "7", "8", "9">>

\* key_factory: the i-th call returns a key no earlier call returned
KeyOf(i) == "k" \o Digits[i + 1]
FactoryKeys == {KeyOf(i) : i \in 1..MaxKeys}

\* cookie values a client can make up: never produced by key_factory
Forged == {"zz"}
CookieValues == FactoryKeys \cup Forged \cup {""}

MaxAges == {None} \cup {Some(n) : n \in 1..MaxAge}

\* session data: a mapping from a subset of DataKeys to values
DataKeys == <<"a">>
DataKeySet == {DataKeys[i] : i \in 1..Len(DataKeys)}
Mappings == UNION {[D -> 1..MaxVal] : D \in SUBSET DataKeySet}
EmptyMapping == << >>

---------------------------------------------------------------------------
(* Serializer: json.dumps / json.loads on token sequences *)

RECURSIVE EncodeItems(_, _)
EncodeItems(m, i) ==
    IF i > Len(DataKeys) THEN << >>
    ELSE IF DataKeys[i] \in DOMAIN m
         THEN LET rest == EncodeItems(m, i + 1)
              IN  <<DataKeys[i], ":", Digits[m[DataKeys[i]] + 1]>>
                  \o (IF rest = << >> THEN << >> ELSE <<",">> \o rest)
         ELSE EncodeItems(m, i + 1)

\* self._encoder (json.dumps): mapping -> text
Encoder(m) == <<"{">> \o EncodeItems(m, 1) \o <<"}">>

IsDigit(t) == \E d \in 0..9 : Digits[d + 1] = t
DigitOf(t) == CHOOSE d \in 0..9 : Digits[d + 1] = t
IsString(t) == t \notin {"{", "}", "[", "]", ":", ","} /\ ~IsDigit(t)

\* nesting depth json.loads can descend before the interpreter's recursion limit
RecursionLimit == 2

RECURSIVE Depth(_, _)
Depth(p, i) == IF i <= Len(p) /\ p[i] = "[" THEN 1 + Depth(p, i + 1) ELSE 0

\* members of an object from position i on: [ok, val] with ok FALSE for malformed text
RECURSIVE ParseItems(_, _, _)
ParseItems(p, i, acc) ==
    IF i + 3 <= Len(p) /\ IsString(p[i]) /\ p[i + 1] = ":" /\ IsDigit(p[i + 2])
    THEN LET acc2 == [k \in DOMAIN acc \cup {p[i]} |->
                         IF k = p[i] THEN DigitOf(p[i + 2]) ELSE acc[k]]
         IN  IF p[i + 3] = "}" /\ i + 3 = Len(p) THEN [ok |-> TRUE, val |-> acc2]
             ELSE IF p[i + 3] = "," THEN ParseItems(p, i + 4, acc2)
             ELSE [ok |-> FALSE, val |-> EmptyMapping]
    ELSE [ok |-> FALSE, val |-> EmptyMapping]

\* self._decoder (json.loads): text -> [exc, val]; exc is None on success
Decoder(p) ==
    IF Depth(p, 1) > RecursionLimit
    THEN [exc |-> Some("RecursionError"), val |-> EmptyMapping]
    ELSE IF p = <<"{", "}">>
    THEN [exc |-> None, val |-> EmptyMapping]
    ELSE IF Len(p) >= 1 /\ p[1] = "{"
    THEN LET r == ParseItems(p, 2, EmptyMapping)
         IN  IF r.ok THEN [exc |-> None, val |-> r.val]
             ELSE [exc |-> Some("ValueError"), val |-> EmptyMapping]
    ELSE [exc |-> Some("ValueError"), val |-> EmptyMapping]

\* payloads that are not the encoding of any session data
Truncated == <<"{", "a", ":">>
TooDeep == [i \in 1..(RecursionLimit + 1) |-> "["]
CorruptPayloads == {Truncated, TooDeep}

---------------------------------------------------------------------------
(* Session and the cookie helpers of AbstractStorage *)

Session(identity, data, new, age) ==
    [identity |-> identity, data |-> data, new |-> new, max_age |-> age]

\* session.empty
Empty(s) == s.data = None \/ The(s.data) = EmptyMapping

\* self._get_session_data(session)
GetSessionData(s) == IF s.data = None THEN EmptyMapping ELSE The(s.data)

NoSession == Session(None, None, TRUE, None)

\* self.load_cookie(request)
LoadCookie(r) == reqCookie[r]

\* self.save_cookie(response, value, max_age=...)
SaveCookie(value, age) == Some([value |-> value, max_age |-> age])

---------------------------------------------------------------------------
(* The key-value store *)

\* self.cookie_name + '_' + key
RecordName(k) == cookie_name \o "_" \o k
RecordNames == {RecordName(k) : k \in CookieValues}

\* conn.get(name)
Get(name) == IF store[name] = None THEN None ELSE Some(The(store[name]).value)

\* expire = max_age if max_age is not None else 0
Expire(age) == IF age # None THEN The(age) ELSE 0

\* conn.setex(name, expire, value): SETEX rejects a non-positive expire
SetexRejected(expire) == expire <= 0

\* mutant: the write replaces the whole store by the one record
SetexFlushes(name, expire, value) ==
    [n \in RecordNames |->
        IF n = name THEN Some([value |-> value, ttl |-> expire]) ELSE None]

\* mutant: a record that exists keeps its value, only its expiry is renewed
SetexKeepsFirst(name, expire, value) ==
    [store EXCEPT ![name] =
        IF @ = None THEN Some([value |-> value, ttl |-> expire])
        ELSE Some([value |-> The(@).value, ttl |-> expire])]

Setex(name, expire, value) ==
    [store EXCEPT ![name] = Some([value |-> value, ttl |-> expire])]

---------------------------------------------------------------------------
(* load_session *)

\* mutant: the fresh session is built without the configured max_age
FreshSessionNoAge == Session(None, None, TRUE, None)

FreshSession == Session(None, None, TRUE, max_age)

\* mutant: a miss keeps the presented key as the session's identity
LoadFoundStaleKey(k, data) ==
    IF data = None
    THEN [exc |-> None, session |-> Session(Some(k), None, TRUE, max_age)]
    ELSE LET d == Decoder(The(data))
         IN  IF d.exc = None
             THEN [exc |-> None, session |-> Session(Some(k), Some(d.val), FALSE, max_age)]
             ELSE IF d.exc = Some("ValueError")
             THEN [exc |-> None, session |-> Session(Some(k), None, FALSE, max_age)]
             ELSE [exc |-> d.exc, session |-> NoSession]

\* mutant: a found record yields a session flagged new
LoadFoundNew(k, data) ==
    IF data = None
    THEN [exc |-> None, session |-> FreshSession]
    ELSE LET d == Decoder(The(data))
         IN  IF d.exc = None
             THEN [exc |-> None, session |-> Session(Some(k), Some(d.val), TRUE, max_age)]
             ELSE IF d.exc = Some("ValueError")
             THEN [exc |-> None, session |-> Session(Some(k), None, FALSE, max_age)]
             ELSE [exc |-> d.exc, session |-> NoSession]

\* the branch of load_session taken once conn.get has returned `data` for cookie k:
\* [exc, session], exc being the exception that leaves load_session, if any
LoadFound(k, data) ==
    IF data = None
    THEN [exc |-> None, session |-> FreshSession]
    ELSE LET d == Decoder(The(data))
         IN  IF d.exc = None
             THEN [exc |-> None, session |-> Session(Some(k), Some(d.val), FALSE, max_age)]
             ELSE IF d.exc = Some("ValueError")
             THEN [exc |-> None, session |-> Session(Some(k), None, FALSE, max_age)]
             ELSE [exc |-> d.exc, session |-> NoSession]

\* a client sends no cookie, a made-up value, the empty value or a key it was issued
ClientCookies ==
    {None} \cup {Some(c) : c \in Forged \cup {""} \cup {KeyOf(i) : i \in 1..keysIssued}}

\* the log entry of conn.get(name): what it returned, or that the transport failed
GetCall(name, reply, failed) ==
    [op |-> "GET", name |-> name, reply |-> reply, failed |-> failed]

NewRequest(r, c) ==
    /\ storage = "ready"
    /\ pc[r] = "idle"
    /\ c \in ClientCookies
    /\ pc' = [pc EXCEPT ![r] = "start"]
    /\ reqCookie' = [reqCookie EXCEPT ![r] = c]
    /\ UNCHANGED <<max_age, store, keysIssued, session, respCookie, key, calls,
                   err, lastSave, readBack, life, conn>>

\* the load right after lastSave, on a request carrying the cookie that save issued
\* (a client that was sent the empty value sends it back or sends no cookie)
ReadsBack(r) ==
    /\ lastSave # None
    /\ \/ LoadCookie(r) = Some(The(lastSave).cookie)
       \/ The(lastSave).cookie = "" /\ LoadCookie(r) = None

LoadNoCookie(r) ==
    /\ pc[r] = "start"
    /\ LoadCookie(r) = None
    /\ session' = [session EXCEPT ![r] = FreshSession]
    /\ pc' = [pc EXCEPT ![r] = "loaded"]
    /\ readBack' = IF ReadsBack(r) THEN readBack \cup {r} ELSE readBack \ {r}
    /\ UNCHANGED <<max_age, store, keysIssued, reqCookie, respCookie, key, calls,
                   err, lastSave, life, conn>>

\* what self._redis is: a client the constructor wrapped around a pool, a client it
\* was given, or whatever else it was given
IsClient(x) == x \in {"Redis(pool)", "Redis"}

\* mutant: the connection is released at the end of the block, not by `async with`
AsyncWithReleasesOnReturn(exit) == exit # "raise"

\* `async with await self._redis as conn`: the block is left through __aexit__ on
\* every way out ("miss", "return" or "raise")
AsyncWithReleases(exit) == TRUE

\* mutant: a failed store call is swallowed instead of re-raised
ReraisesButConnection(exc) == exc # "ConnectionError"

\* `except Exception as err: raise`: whatever the block raises leaves the method
Reraises(exc) == TRUE

\* the connections held once r has left its `async with` block
Leave(r, exit) == IF AsyncWithReleases(exit) THEN held \ {r} ELSE held \cup {r}

\* r leaves the block: the client's __aexit__ releases the connection by running
\* close() on the client
LeaveBlock(r, exit) ==
    /\ held' = Leave(r, exit)
    /\ closed' = (closed \/ AsyncWithReleases(exit))

\* mutant: one Session object per cookie value, shared by the requests carrying it
HoldersByCookie(r) == {q \in Reqs : reqCookie[q] = reqCookie[r] /\ pc[q] # "idle"}

\* the requests that hold the Session a load_session of r returns: each
\* invocation builds its own
Holders(r) == {r}

\* line 57, `async with await self._redis as conn`: r enters the block and is
\* suspended until the store has answered its GET
LoadAcquire(r) ==
    /\ pc[r] = "start"
    /\ LoadCookie(r) # None
    /\ block[r] = "out"
    /\ IF ~IsClient(redis)
       THEN /\ err' = [err EXCEPT ![r] = Some("TypeError")]
            /\ pc' = [pc EXCEPT ![r] = "raised"]
            /\ readBack' = readBack \ {r}
            /\ UNCHANGED conn
       ELSE /\ held' = held \cup {r}
            /\ block' = [block EXCEPT ![r] = "pending"]
            /\ UNCHANGED <<err, pc, readBack>>
    /\ UNCHANGED <<max_age, store, keysIssued, reqCookie, session, respCookie, key,
                   calls, lastSave, life>>

\* line 59, conn.get(self.cookie_name + '_' + key): the store answers with what it
\* holds now, or the transport fails
LoadGet(r, fail) ==
    /\ pc[r] = "start"
    /\ block[r] = "pending"
    /\ LET name == RecordName(The(LoadCookie(r)))
       IN  /\ calls' = [calls EXCEPT ![r] =
                           Append(@, GetCall(name, IF fail THEN None ELSE Get(name), fail))]
           /\ readBack' = IF ~fail /\ ReadsBack(r) THEN readBack \cup {r}
                          ELSE readBack \ {r}
    /\ block' = [block EXCEPT ![r] = "answered"]
    /\ UNCHANGED <<max_age, store, keysIssued, pc, reqCookie, session, respCookie, key,
                   err, lastSave, life, held>>

\* lines 60-70: r resumes with the reply, decodes it and leaves the block
LoadResume(r) ==
    /\ pc[r] = "start"
    /\ block[r] = "answered"
    /\ LET c == calls[r][Len(calls[r])]
           out == LoadFound(The(LoadCookie(r)), c.reply)
       IN  IF c.failed
           THEN /\ LeaveBlock(r, "raise")
                /\ IF Reraises("ConnectionError")
                   THEN /\ err' = [err EXCEPT ![r] = Some("ConnectionError")]
                        /\ pc' = [pc EXCEPT ![r] = "raised"]
                        /\ UNCHANGED session
                   ELSE /\ session' = [session EXCEPT ![r] = FreshSession]
                        /\ pc' = [pc EXCEPT ![r] = "loaded"]
                        /\ UNCHANGED err
           ELSE IF out.exc # None
           THEN /\ err' = [err EXCEPT ![r] = out.exc]
                /\ pc' = [pc EXCEPT ![r] = "raised"]
                /\ LeaveBlock(r, "raise")
                /\ UNCHANGED session
           ELSE /\ session' = [q \in Reqs |-> IF q \in Holders(r) THEN out.session
                                              ELSE session[q]]
                /\ pc' = [pc EXCEPT ![r] = "loaded"]
                /\ LeaveBlock(r, IF c.reply = None THEN "miss" ELSE "return")
                /\ UNCHANGED err
    /\ block' = [block EXCEPT ![r] = "out"]
    /\ UNCHANGED <<max_age, store, keysIssued, reqCookie, respCookie, key, calls,
                   lastSave, readBack, aioredis, storage, redis>>

---------------------------------------------------------------------------
(* the handler, between load and save *)

\* the handler leaves the session's data as loaded or replaces it
Handler(r, d) ==
    /\ pc[r] = "loaded"
    /\ d \in {session[r].data} \cup {Some(m) : m \in Mappings}
    /\ session' = [session EXCEPT ![r].data = d]
    /\ pc' = [pc EXCEPT ![r] = "handled"]
    /\ readBack' = readBack \ {r}
    /\ UNCHANGED <<max_age, store, keysIssued, reqCookie, respCookie, key, calls,
                   err, lastSave, life, conn>>

---------------------------------------------------------------------------
(* save_session *)

\* mutant: no empty branch, the cookie is always re-set to the key
SaveCookieValueKeepsKey(s, fresh) ==
    IF s.identity = None THEN fresh ELSE The(s.identity)

\* the value save_session gives save_cookie
SaveCookieValue(s, fresh) ==
    IF s.identity = None THEN fresh
    ELSE IF Empty(s) THEN ""
    ELSE The(s.identity)

\* mutant: the empty branch also empties the key the record is written at
SaveKeyFollowsCookie(s, fresh) == SaveCookieValue(s, fresh)

\* key = session.identity, or key_factory() when it is None
SaveKey(s, fresh) == IF s.identity = None THEN fresh ELSE The(s.identity)

\* mutant: key_factory is called before the identity is looked at
KeyFactoryCalledAlways(s) == TRUE

\* `if key is None: key = self._key_factory()`
KeyFactoryCalled(s) == s.identity = None

\* up to the await: choose the key, set the cookie
SaveSessionCookie(r) ==
    /\ pc[r] = "handled"
    /\ LET s == session[r]
           fresh == KeyOf(keysIssued + 1)
       IN  /\ SaveKey(s, fresh) = fresh => keysIssued < MaxKeys
           /\ keysIssued' = IF KeyFactoryCalled(s) THEN keysIssued + 1 ELSE keysIssued
           /\ key' = [key EXCEPT ![r] = Some(SaveKey(s, fresh))]
           /\ respCookie' = [respCookie EXCEPT ![r] =
                                SaveCookie(SaveCookieValue(s, fresh), s.max_age)]
    /\ pc' = [pc EXCEPT ![r] = "saving"]
    /\ UNCHANGED <<max_age, store, reqCookie, session, calls, err, lastSave, readBack,
                   life, conn>>

\* mutant: the encoder is given an empty structure instead of the session's data
SaveDataNoSession(s) == Encoder(EmptyMapping)

\* data = self._encoder(self._get_session_data(session))
SaveData(s) == Encoder(GetSessionData(s))

\* the arguments of conn.setex
SetexCall(s, k) ==
    [name |-> RecordName(k), expire |-> Expire(s.max_age), value |-> SaveData(s)]

\* the log entry of conn.setex(name, expire, value)
SetexLog(c, failed) ==
    [op |-> "SETEX", name |-> c.name, expire |-> c.expire, value |-> c.value,
     failed |-> failed]

\* mutant: an empty session is not written to the store
IssuesWriteUnlessEmpty(s) == ~Empty(s)

\* save_session goes on to conn.setex whatever branch set the cookie
IssuesWrite(s) == TRUE

\* line 94, `async with await self._redis as conn`: r enters the block and is
\* suspended until the store has answered its SETEX
SaveAcquire(r) ==
    /\ pc[r] = "saving"
    /\ block[r] = "out"
    /\ IF ~IssuesWrite(session[r])
       THEN /\ pc' = [pc EXCEPT ![r] = "saved"]
            /\ UNCHANGED <<err, conn>>
       ELSE IF ~IsClient(redis)
       THEN /\ err' = [err EXCEPT ![r] = Some("TypeError")]
            /\ pc' = [pc EXCEPT ![r] = "raised"]
            /\ UNCHANGED conn
       ELSE /\ held' = held \cup {r}
            /\ block' = [block EXCEPT ![r] = "pending"]
            /\ UNCHANGED <<err, pc>>
    /\ UNCHANGED <<max_age, store, keysIssued, reqCookie, session, respCookie, key,
                   calls, lastSave, readBack, life>>

\* lines 95-101, conn.setex(name, expire, data): the store executes the write,
\* refuses it, or the transport fails
SaveSetex(r, fail) ==
    /\ pc[r] = "saving"
    /\ block[r] = "pending"
    /\ LET s == session[r]
           c == SetexCall(s, The(key[r]))
       IN  /\ calls' = [calls EXCEPT ![r] = Append(@, SetexLog(c, fail))]
           /\ IF fail \/ SetexRejected(c.expire)
              THEN UNCHANGED <<store, lastSave, readBack>>
              ELSE /\ store' = Setex(c.name, c.expire, c.value)
                   /\ lastSave' = IF \A q \in Reqs \ {r} : pc[q] = "idle"
                                  THEN Some([cookie |-> The(respCookie[r]).value,
                                             data |-> GetSessionData(s)])
                                  ELSE None
                   /\ readBack' = {}
    /\ block' = [block EXCEPT ![r] = "answered"]
    /\ UNCHANGED <<max_age, keysIssued, pc, reqCookie, session, respCookie, key, err,
                   life, held>>

\* lines 101-103: r resumes, leaves the block and returns, or raises what the
\* call raised
SaveResume(r) ==
    /\ pc[r] = "saving"
    /\ block[r] = "answered"
    /\ LET c == calls[r][Len(calls[r])]
       IN  IF c.failed
           THEN /\ LeaveBlock(r, "raise")
                /\ IF Reraises("ConnectionError")
                   THEN /\ err' = [err EXCEPT ![r] = Some("ConnectionError")]
                        /\ pc' = [pc EXCEPT ![r] = "raised"]
                   ELSE /\ pc' = [pc EXCEPT ![r] = "saved"]
                        /\ UNCHANGED err
           ELSE IF SetexRejected(c.expire)
           THEN /\ err' = [err EXCEPT ![r] = Some("ResponseError")]
                /\ pc' = [pc EXCEPT ![r] = "raised"]
                /\ LeaveBlock(r, "raise")
           ELSE /\ pc' = [pc EXCEPT ![r] = "saved"]
                /\ LeaveBlock(r, "return")
                /\ UNCHANGED err
    /\ block' = [block EXCEPT ![r] = "out"]
    /\ UNCHANGED <<max_age, store, keysIssued, reqCookie, session, respCookie, key,
                   calls, lastSave, readBack, aioredis, storage, redis>>

\* the request is over: its Session and response are discarded
Finish(r) ==
    /\ pc[r] \in {"saved", "raised"}
    /\ pc' = [pc EXCEPT ![r] = "idle"]
    /\ reqCookie' = [reqCookie EXCEPT ![r] = None]
    /\ session' = [session EXCEPT ![r] = NoSession]
    /\ respCookie' = [respCookie EXCEPT ![r] = None]
    /\ key' = [key EXCEPT ![r] = None]
    /\ calls' = [calls EXCEPT ![r] = << >>]
    /\ err' = [err EXCEPT ![r] = None]
    /\ readBack' = readBack \ {r}
    /\ UNCHANGED <<max_age, store, keysIssued, lastSave, life, conn>>

\* the application calls save_session(request, response, session) once more, with
\* the session as the save before left it
SaveAgain(r) ==
    /\ pc[r] = "saved"
    /\ Cardinality({i \in 1..Len(calls[r]) : calls[r][i].op = "SETEX"}) < MaxSaves
    /\ pc' = [pc EXCEPT ![r] = "handled"]
    /\ UNCHANGED <<max_age, store, keysIssued, reqCookie, session, respCookie, key,
                   calls, err, lastSave, readBack, life, conn>>

---------------------------------------------------------------------------
(* the environment *)

\* one second passes: every record's TTL runs down, a record at 0 is gone
Tick ==
    /\ \E n \in RecordNames : store[n] # None
    /\ store' = [n \in RecordNames |->
                    IF store[n] = None \/ The(store[n]).ttl = 1 THEN None
                    ELSE Some([The(store[n]) EXCEPT !.ttl = @ - 1])]
    /\ lastSave' = None
    /\ readBack' = {}
    /\ UNCHANGED <<max_age, keysIssued, pc, reqCookie, session, respCookie, key,
                   calls, err, life, conn>>

\* a record's payload is damaged in the store
Corrupt(n, p) ==
    /\ store[n] # None
    /\ The(store[n]).value # p
    /\ store' = [store EXCEPT ![n] = Some([The(@) EXCEPT !.value = p])]
    /\ lastSave' = None
    /\ readBack' = {}
    /\ UNCHANGED <<max_age, keysIssued, pc, reqCookie, session, respCookie, key,
                   calls, err, life, conn>>

---------------------------------------------------------------------------
(* construction and finalization *)

\* versions of aioredis that can be installed, as StrictVersion(...).version
Versions == {<<1, 3, 1>>, <<2, 0, 1>>}
Libraries == {None} \cup {Some(v) : v \in Versions}

\* the oldest supported version
MinVersion == <<2, 0>>

\* Python's order on tuples
RECURSIVE TupleLess(_, _)
TupleLess(a, b) ==
    IF b = << >> THEN FALSE
    ELSE IF a = << >> THEN TRUE
    ELSE IF Head(a) # Head(b) THEN Head(a) < Head(b)
    ELSE TupleLess(Tail(a), Tail(b))

\* what can be passed as redis_pool: a ConnectionPool, a Redis client, or
\* something that is neither
PoolArgs == {"ConnectionPool", "Redis", "str"}

\* self._redis: a pool is wrapped in a client, anything else is kept as it is
KeptClient(pool) == IF pool = "ConnectionPool" THEN "Redis(pool)" ELSE pool

\* RedisStorage(redis_pool, max_age=age)
Construct(pool, age) ==
    /\ storage = "unbuilt"
    /\ max_age' = age
    /\ IF aioredis = None
       THEN storage' = "failed" /\ UNCHANGED redis
       ELSE IF TupleLess(The(aioredis), MinVersion)
       THEN storage' = "failed" /\ UNCHANGED redis
       ELSE storage' = "ready" /\ redis' = KeptClient(pool)
    /\ UNCHANGED <<store, keysIssued, pc, reqCookie, session, respCookie, key,
                   calls, err, lastSave, readBack, aioredis, closed, conn>>

\* __del__, once no request refers to the storage: asyncio.run(self._redis.close())
\* runs close() on the client unless an event loop is running in the thread
\* (asyncio.run then raises) or there is no client to call it on
Del(running) ==
    /\ storage \in {"ready", "failed"}
    /\ \A r \in Reqs : pc[r] = "idle"
    /\ storage' = "deleted"
    /\ closed' = (closed \/ (storage = "ready" /\ IsClient(redis) /\ ~running))
    /\ UNCHANGED <<max_age, store, keysIssued, pc, reqCookie, session, respCookie,
                   key, calls, err, lastSave, readBack, aioredis, redis, conn>>

---------------------------------------------------------------------------

Init ==
    /\ max_age \in MaxAges
    /\ store = [n \in RecordNames |-> None]
    /\ keysIssued = 0
    /\ pc = [r \in Reqs |-> "idle"]
    /\ reqCookie = [r \in Reqs |-> None]
    /\ session = [r \in Reqs |-> NoSession]
    /\ respCookie = [r \in Reqs |-> None]
    /\ key = [r \in Reqs |-> None]
    /\ calls = [r \in Reqs |-> << >>]
    /\ err = [r \in Reqs |-> None]
    /\ lastSave = None
    /\ readBack = {}
    /\ aioredis = Some(<<2, 0, 1>>)
    /\ storage = "ready"
    /\ redis = KeptClient("ConnectionPool")
    /\ closed = FALSE
    /\ held = {}
    /\ block = [r \in Reqs |-> "out"]

Next ==
    \/ \E r \in SeqReqs, c \in {None} \cup {Some(v) : v \in CookieValues} : NewRequest(r, c)
    \/ \E r \in SeqReqs : LoadNoCookie(r)
    \/ \E r \in SeqReqs : LoadAcquire(r)
    \/ \E r \in SeqReqs, fail \in BOOLEAN : LoadGet(r, fail)
    \/ \E r \in SeqReqs : LoadResume(r)
    \/ \E r \in SeqReqs, d \in {None} \cup {Some(m) : m \in Mappings} : Handler(r, d)
    \/ \E r \in SeqReqs : SaveSessionCookie(r)
    \/ \E r \in SeqReqs : SaveAcquire(r)
    \/ \E r \in SeqReqs, fail \in BOOLEAN : SaveSetex(r, fail)
    \/ \E r \in SeqReqs : SaveResume(r)
    \/ \E r \in SeqReqs : Finish(r)
    \/ Tick

Spec == Init /\ [][Next]_vars

\* the same requests against a store whose records get damaged
NextDamage ==
    \/ \E r \in SeqReqs, c \in {None} \cup {Some(v) : v \in CookieValues} : NewRequest(r, c)
    \/ \E r \in SeqReqs : LoadNoCookie(r)
    \/ \E r \in SeqReqs : LoadAcquire(r)
    \/ \E r \in SeqReqs, fail \in BOOLEAN : LoadGet(r, fail)
    \/ \E r \in SeqReqs : LoadResume(r)
    \/ \E r \in SeqReqs, d \in {None} \cup {Some(m) : m \in Mappings} : Handler(r, d)
    \/ \E r \in SeqReqs : SaveSessionCookie(r)
    \/ \E r \in SeqReqs : SaveAcquire(r)
    \/ \E r \in SeqReqs, fail \in BOOLEAN : SaveSetex(r, fail)
    \/ \E r \in SeqReqs : SaveResume(r)
    \/ \E r \in SeqReqs : Finish(r)
    \/ \E n \in RecordNames, p \in CorruptPayloads : Corrupt(n, p)

SpecDamage == Init /\ [][NextDamage]_vars

\* requests whose session is saved more than once
NextTwice ==
    \/ \E r \in SeqReqs, c \in {None} \cup {Some(v) : v \in CookieValues} : NewRequest(r, c)
    \/ \E r \in SeqReqs : LoadNoCookie(r)
    \/ \E r \in SeqReqs : LoadAcquire(r)
    \/ \E r \in SeqReqs, fail \in BOOLEAN : LoadGet(r, fail)
    \/ \E r \in SeqReqs : LoadResume(r)
    \/ \E r \in SeqReqs, d \in {None} \cup {Some(m) : m \in Mappings} : Handler(r, d)
    \/ \E r \in SeqReqs : SaveSessionCookie(r)
    \/ \E r \in SeqReqs : SaveAcquire(r)
    \/ \E r \in SeqReqs, fail \in BOOLEAN : SaveSetex(r, fail)
    \/ \E r \in SeqReqs : SaveResume(r)
    \/ \E r \in SeqReqs : SaveAgain(r)
    \/ \E r \in SeqReqs : Finish(r)
    \/ Tick

SpecTwice == Init /\ [][NextTwice]_vars

\* requests served concurrently: their steps interleave at every await
NextConc ==
    \/ \E r \in Reqs, c \in {None} \cup {Some(v) : v \in FactoryKeys} : NewRequest(r, c)
    \/ \E r \in Reqs : LoadNoCookie(r)
    \/ \E r \in Reqs : LoadAcquire(r)
    \/ \E r \in Reqs : LoadGet(r, FALSE)
    \/ \E r \in Reqs : LoadResume(r)
    \/ \E r \in Reqs, d \in {None} \cup {Some(m) : m \in Mappings} : Handler(r, d)
    \/ \E r \in Reqs : SaveSessionCookie(r)
    \/ \E r \in Reqs : SaveAcquire(r)
    \/ \E r \in Reqs : SaveSetex(r, FALSE)
    \/ \E r \in Reqs : SaveResume(r)
    \/ \E r \in Reqs : Finish(r)

\* a storage whose sessions expire, no record expiring while the requests run
InitConc ==
    /\ max_age = Some(MaxAge)
    /\ store = [n \in RecordNames |-> None]
    /\ keysIssued = 0
    /\ pc = [r \in Reqs |-> "idle"]
    /\ reqCookie = [r \in Reqs |-> None]
    /\ session = [r \in Reqs |-> NoSession]
    /\ respCookie = [r \in Reqs |-> None]
    /\ key = [r \in Reqs |-> None]
    /\ calls = [r \in Reqs |-> << >>]
    /\ err = [r \in Reqs |-> None]
    /\ lastSave = None
    /\ readBack = {}
    /\ aioredis = Some(<<2, 0, 1>>)
    /\ storage = "ready"
    /\ redis = KeptClient("ConnectionPool")
    /\ closed = FALSE
    /\ held = {}
    /\ block = [r \in Reqs |-> "out"]

SpecConc == InitConc /\ [][NextConc]_vars

\* the storage from its construction to its finalization
InitLife ==
    /\ max_age = None
    /\ store = [n \in RecordNames |-> None]
    /\ keysIssued = 0
    /\ pc = [r \in Reqs |-> "idle"]
    /\ reqCookie = [r \in Reqs |-> None]
    /\ session = [r \in Reqs |-> NoSession]
    /\ respCookie = [r \in Reqs |-> None]
    /\ key = [r \in Reqs |-> None]
    /\ calls = [r \in Reqs |-> << >>]
    /\ err = [r \in Reqs |-> None]
    /\ lastSave = None
    /\ readBack = {}
    /\ aioredis \in Libraries
    /\ storage = "unbuilt"
    /\ redis = "unset"
    /\ closed = FALSE
    /\ held = {}
    /\ block = [r \in Reqs |-> "out"]

NextLife ==
    \/ \E pool \in PoolArgs, age \in MaxAges : Construct(pool, age)
    \/ \E r \in SeqReqs, c \in {None} \cup {Some(v) : v \in CookieValues} : NewRequest(r, c)
    \/ \E r \in SeqReqs : LoadNoCookie(r)
    \/ \E r \in SeqReqs : LoadAcquire(r)
    \/ \E r \in SeqReqs, fail \in BOOLEAN : LoadGet(r, fail)
    \/ \E r \in SeqReqs : LoadResume(r)
    \/ \E r \in SeqReqs, d \in {None} \cup {Some(m) : m \in Mappings} : Handler(r, d)
    \/ \E r \in SeqReqs : SaveSessionCookie(r)
    \/ \E r \in SeqReqs : SaveAcquire(r)
    \/ \E r \in SeqReqs, fail \in BOOLEAN : SaveSetex(r, fail)
    \/ \E r \in SeqReqs : SaveResume(r)
    \/ \E r \in SeqReqs : Finish(r)
    \/ \E running \in BOOLEAN : Del(running)

SpecLife == InitLife /\ [][NextLife]_vars

---------------------------------------------------------------------------
(* Properties *)

\* r's load_session has returned or raised and its GET, if any, got an answer
LoadEnded(r) ==
    /\ pc[r] \in {"loaded", "raised"}
    /\ key[r] = None
    /\ \A i \in 1..Len(calls[r]) : ~calls[r][i].failed

\* r's load_session sent a GET and the store answered `reply`
GetReplied(r, reply) ==
    /\ Len(calls[r]) >= 1
    /\ calls[r][1].op = "GET"
    /\ ~calls[r][1].failed
    /\ calls[r][1].reply = reply

\* r's save_session has issued its cookie (and possibly its store write)
SaveBegun(r) == key[r] # None

\* r takes a step of its load_session
LoadStep(r) == pc[r] = "start" /\ (pc'[r] # "start" \/ block'[r] # block[r])

\* r takes the step of its save_session that sets the cookie
CookieStep(r) == pc[r] = "handled" /\ pc'[r] = "saving"

\* r takes a step of its save_session after the cookie is set
WriteStep(r) == pc[r] = "saving" /\ (pc'[r] # "saving" \/ block'[r] # block[r])

\* the store answers the call r is waiting for
AnswerStep(r) == block[r] = "pending" /\ block'[r] = "answered"

\* r resumes after its call and leaves load_session or save_session
ResumeStep(r) == block[r] = "answered" /\ block'[r] = "out"

\* the store took the SETEX that c logs
Accepted(c) == c.op = "SETEX" /\ ~c.failed /\ ~SetexRejected(c.expire)

\* C1: a load right after a completed save of a non-empty session, on a request
\* carrying the cookie value that save issued, returns a non-new session whose
\* identity is that cookie value and whose data is the data just written
C1_RoundTrip ==
    \A r \in readBack :
        (/\ lastSave # None
         /\ The(lastSave).data # EmptyMapping
         /\ LoadCookie(r) = Some(The(lastSave).cookie)
         /\ pc[r] # "start")
        => /\ pc[r] = "loaded"
           /\ session[r] = Session(Some(The(lastSave).cookie),
                                   Some(The(lastSave).data), FALSE, max_age)

C1_Witness ==
    \E r \in readBack :
        /\ lastSave # None
        /\ The(lastSave).data # EmptyMapping
        /\ pc[r] = "loaded"
        /\ LoadCookie(r) = Some(The(lastSave).cookie)
        /\ session[r].data = Some(The(lastSave).data)
        /\ ~session[r].new

\* C2: when the session's max_age is null, the record save_session writes has no
\* expiry: once the store write has been issued (and the transport did not fail),
\* a record is readable at the key
C2_NullMaxAgeNoExpiry ==
    \A r \in Reqs :
        \A i \in 1..Len(calls[r]) :
            (/\ calls[r][i].op = "SETEX"
             /\ ~calls[r][i].failed
             /\ session[r].max_age = None)
            => store[calls[r][i].name] # None

\* C3: the max-age given to the cookie-set step and the expiry given to the store
\* write are both exactly the max_age configured at construction
C3_TtlPropagation ==
    \A r \in Reqs :
        /\ respCookie[r] # None => The(respCookie[r]).max_age = max_age
        /\ \A i \in 1..Len(calls[r]) :
               calls[r][i].op = "SETEX" => Some(calls[r][i].expire) = max_age

\* C4: a load with cookie k and no record at "{cookie_name}_k" returns the fresh
\* session of the no-cookie case; a following save takes a new key from
\* key_factory and issues no write at "{cookie_name}_k"
C4_MissIsFresh ==
    \A r \in Reqs :
        (reqCookie[r] # None /\ GetReplied(r, None))
        => /\ pc[r] # "raised" \/ SaveBegun(r)
           /\ pc[r] = "loaded" => session[r] = Session(None, None, TRUE, max_age)
           /\ SaveBegun(r) =>
                 /\ key[r] # reqCookie[r]
                 /\ \E i \in 1..keysIssued : key[r] = Some(KeyOf(i))
                 /\ \A i \in 1..Len(calls[r]) :
                        calls[r][i].op = "SETEX"
                        => calls[r][i].name # RecordName(The(reqCookie[r]))

C4_Witness ==
    \E r \in Reqs :
        /\ pc[r] = "saved"
        /\ reqCookie[r] # None
        /\ The(reqCookie[r]) # ""
        /\ GetReplied(r, None)
        /\ key[r] # reqCookie[r]
        /\ store[RecordName(The(key[r]))] # None
        /\ store[RecordName(The(reqCookie[r]))] = None

\* C5: whatever way the decoder fails on the record's payload,
\* load_session does not raise and returns identity = cookie key, data null, new=false
C5_AnyDecodeFailure ==
    \A r \in Reqs : \A p \in CorruptPayloads \cup {Encoder(m) : m \in Mappings} :
        (LoadEnded(r) /\ GetReplied(r, Some(p)) /\ Decoder(p).exc # None)
        => /\ pc[r] = "loaded"
           /\ session[r] = Session(reqCookie[r], None, FALSE, max_age)

\* C6: a load with cookie k whose record holds the serialization of data d returns
\* identity = k, data = d, new=false, max_age = the configured max_age
C6_HitDecodes ==
    \A r \in Reqs : \A d \in Mappings :
        (LoadEnded(r) /\ GetReplied(r, Some(Encoder(d))))
        => /\ pc[r] = "loaded"
           /\ session[r] = Session(reqCookie[r], Some(d), FALSE, max_age)

C6_Witness ==
    \E r \in Reqs :
        /\ pc[r] = "loaded"
        /\ GetReplied(r, Some(<<"{", "a", ":", "1", "}">>))
        /\ session[r].identity = reqCookie[r]
        /\ session[r].data = Some([k \in {"a"} |-> 1])
        /\ ~session[r].new

\* C7: a load with no session cookie returns identity null, data null, new=true,
\* max_age = the configured max_age, whatever the store holds, and issues no
\* operation against the store
C7_NoCookieIsFresh ==
    \A r \in Reqs :
        (reqCookie[r] = None /\ pc[r] \in {"loaded", "raised"} /\ ~SaveBegun(r))
        => /\ pc[r] = "loaded"
           /\ session[r] = Session(None, None, TRUE, max_age)
           /\ calls[r] = << >>

C7_Witness ==
    \E r \in Reqs :
        /\ pc[r] = "loaded"
        /\ reqCookie[r] = None
        /\ calls[r] = << >>
        /\ session[r].new
        /\ \E n \in RecordNames : store[n] # None

\* C8: save_session of a session with a null identity calls key_factory exactly
\* once for a new key k, sets the cookie to k with the session's max_age and
\* writes the encoded session data at "{cookie_name}_k" with the session's
\* max_age as expiry, which the store then holds; empty session or not
C8_FreshSave ==
    [][\A r \in Reqs :
          LET s == session[r]
              k == KeyOf(keysIssued + 1)
          IN  /\ (pc[r] = "handled" /\ pc'[r] = "saving" /\ s.identity = None)
                 => /\ keysIssued' = keysIssued + 1
                    /\ key'[r] = Some(k)
                    /\ respCookie'[r] = Some([value |-> k, max_age |-> s.max_age])
                    /\ store' = store
              /\ (pc[r] = "saving" /\ AnswerStep(r) /\ s.identity = None)
                 => LET n == RecordName(The(key[r]))
                        c == calls'[r][Len(calls'[r])]
                    IN  /\ keysIssued' = keysIssued
                        /\ The(key[r]) = KeyOf(keysIssued)
                        /\ Len(calls'[r]) = Len(calls[r]) + 1
                        /\ c.op = "SETEX"
                        /\ c.name = n
                        /\ c.value = Encoder(IF s.data = None THEN EmptyMapping
                                             ELSE The(s.data))
                        /\ Some(c.expire) = s.max_age
                        /\ ~c.failed
                           => /\ store'[n] # None
                              /\ The(store'[n]).value = c.value
                        /\ \A o \in RecordNames \ {n} : store'[o] = store[o]
      ]_vars

\* C9: save_session of an empty session with identity k sets an empty-valued
\* cookie with max_age and still issues the write of the encoded empty payload at
\* "{cookie_name}_k", which the store then holds; it takes no new key and it
\* deletes no record
C9_EmptySave ==
    [][\A r \in Reqs :
          LET s == session[r]
          IN  /\ (pc[r] = "handled" /\ pc'[r] = "saving" /\ s.identity # None /\ Empty(s))
                 => /\ keysIssued' = keysIssued
                    /\ key'[r] = s.identity
                    /\ respCookie'[r] = Some([value |-> "", max_age |-> s.max_age])
                    /\ store' = store
              /\ (pc[r] = "saving" /\ AnswerStep(r) /\ s.identity # None /\ Empty(s))
                 => LET n == RecordName(The(s.identity))
                        c == calls'[r][Len(calls'[r])]
                    IN  /\ keysIssued' = keysIssued
                        /\ Len(calls'[r]) = Len(calls[r]) + 1
                        /\ c.op = "SETEX"
                        /\ c.name = n
                        /\ c.value = <<"{", "}">>
                        /\ s.max_age # None => c.expire = The(s.max_age)
                        /\ Accepted(c) => The(store'[n]).value = <<"{", "}">>
                        /\ \A o \in RecordNames : store[o] # None => store'[o] # None
                        /\ \A o \in RecordNames \ {n} : store'[o] = store[o]
      ]_vars

C9_Witness ==
    \E r \in Reqs :
        /\ pc[r] = "saved"
        /\ session[r].identity # None
        /\ Empty(session[r])
        /\ The(respCookie[r]).value = ""
        /\ key[r] = session[r].identity
        /\ store[RecordName(The(key[r]))] # None
        /\ The(store[RecordName(The(key[r]))]).value = <<"{", "}">>

\* C10: a load on a request carrying a cleared cookie (no cookie, or the empty
\* value) returns a fresh session: identity null, data null, new=true; so does
\* the load that follows a save that took the empty branch
C10_ClearedCookieIsFresh ==
    \A r \in Reqs :
        (reqCookie[r] \in {None, Some("")} /\ LoadEnded(r))
        => /\ pc[r] = "loaded"
           /\ session[r].identity = None
           /\ session[r].data = None
           /\ session[r].new

C10_Witness ==
    \E r \in readBack :
        /\ lastSave # None
        /\ The(lastSave).cookie = ""
        /\ reqCookie[r] = Some("")
        /\ pc[r] = "loaded"
        /\ session[r].identity = None
        /\ session[r].new

\* the SETEX calls r has issued
SetexCalls(r) == {i \in 1..Len(calls[r]) : calls[r][i].op = "SETEX"}

\* r's save_session has returned or raised
SaveEnded(r) == SaveBegun(r) /\ pc[r] \in {"saved", "raised"}

\* C11 as claimed: no save_session ends with the response cookie set and no record
\* written, the store write failing or not
C11_CookieImpliesRecord ==
    \A r \in Reqs :
        (SaveEnded(r) /\ respCookie[r] # None) => pc[r] = "saved"

\* C11 amended: every save_session that ends has set the response cookie and has
\* issued exactly one store write, in that order; the record is written exactly
\* when the store accepts that write, and never without the cookie step
C11_CookieAndOneWrite ==
    \A r \in Reqs :
        SaveEnded(r)
        => /\ respCookie[r] # None
           /\ Cardinality(SetexCalls(r)) = 1
           /\ Len(calls[r]) \in SetexCalls(r)
           /\ LET c == calls[r][Len(calls[r])]
              IN  /\ c.name = RecordName(The(key[r]))
                  /\ pc[r] = "saved" <=> (~c.failed /\ ~SetexRejected(c.expire))

C11_Witness ==
    \E r \in Reqs :
        /\ pc[r] = "raised"
        /\ respCookie[r] # None
        /\ Cardinality(SetexCalls(r)) = 1
        /\ calls[r][Len(calls[r])].failed
        /\ store[RecordName(The(key[r]))] = None

\* C12: a transport error of the GET or of the SETEX leaves the method as the same
\* error after a single attempt: load_session returns no session, and the store
\* is as it was before the call
C12_TransportErrorPropagates ==
    [][\A r \in Reqs :
          /\ (AnswerStep(r) /\ calls'[r][Len(calls'[r])].failed)
             => /\ Len(calls'[r]) = Len(calls[r]) + 1
                /\ store' = store
                /\ session'[r] = session[r]
          /\ (ResumeStep(r) /\ calls[r][Len(calls[r])].failed)
             => /\ pc'[r] = "raised"
                /\ err'[r] = Some("ConnectionError")
                /\ calls'[r] = calls[r]
                /\ session'[r] = session[r]
                /\ store' = store
      ]_vars

C12_Witness ==
    \E r \in Reqs :
        /\ pc[r] = "raised"
        /\ err[r] = Some("ConnectionError")
        /\ ~SaveBegun(r)
        /\ Len(calls[r]) = 1
        /\ calls[r][1].op = "GET"
        /\ calls[r][1].failed
        /\ session[r] = NoSession
        /\ store[calls[r][1].name] # None

\* C13: the constructor raises, and no usable storage exists, when aioredis is
\* missing, when its version is below 2.0, and when redis_pool is neither a
\* connection pool nor a client
C13_ConstructionRejects ==
    storage = "ready"
    => /\ aioredis # None
       /\ ~TupleLess(The(aioredis), MinVersion)
       /\ IsClient(redis)

\* C16: every way out of load_session and save_session (return, return on a miss,
\* a decoder failure, a transport error) releases the connection the invocation
\* acquired: an invocation that has ended holds none
C16_ScopedAcquisition ==
    \A r \in Reqs : pc[r] \notin {"start", "saving"} => r \notin held

C16_Witness ==
    \E r \in Reqs :
        /\ pc[r] = "raised"
        /\ err[r] = Some("RecursionError")
        /\ GetReplied(r, Some(TooDeep))
        /\ block[r] = "out"
        /\ held = {}

\* C17: nothing the storage does, its finalization included, closes the client the
\* host application shares with it
C17_ClientNeverClosed == ~closed

\* the keys key_factory has produced so far
IssuedKeys == {KeyOf(i) : i \in 1..keysIssued}

\* C15: starting from an empty store, the identity of a session load_session
\* returns is null or a non-empty key that key_factory produced and save_session
\* issued as a cookie value; a cookie value the client made up is never a
\* session's identity, a save's key or the key of a record
C15_IdentityWasIssued ==
    /\ \A r \in Reqs :
          /\ session[r].identity # None
             => The(session[r].identity) # "" /\ The(session[r].identity) \in IssuedKeys
          /\ key[r] # None => The(key[r]) \in IssuedKeys
    /\ \A n \in RecordNames :
          store[n] # None => \E k \in IssuedKeys : n = RecordName(k)

C15_Witness ==
    \E r \in Reqs :
        /\ reqCookie[r] \in {Some(f) : f \in Forged}
        /\ pc[r] = "saved"
        /\ session[r].identity = None
        /\ keysIssued = 2
        /\ key[r] = Some(KeyOf(2))
        /\ store[RecordName(KeyOf(1))] # None
        /\ \A f \in Forged : store[RecordName(f)] = None

\* the last SETEX r issued before this one
LastSetex(r) == calls[r][CHOOSE i \in SetexCalls(r) : \A j \in SetexCalls(r) : j <= i]

\* C14: a second save_session of the same non-empty session with the same non-null
\* identity sets the cookie value the first one set, calls key_factory zero
\* times, and writes the payload the first one wrote at the key the first one
\* wrote it at, touching no other key
C14_SaveTwice ==
    [][\A r \in Reqs :
          LET s == session[r]
          IN  (s.identity # None /\ ~Empty(s) /\ SetexCalls(r) # {})
              => /\ (pc[r] = "handled" /\ pc'[r] = "saving")
                    => /\ keysIssued' = keysIssued
                       /\ key'[r] = key[r]
                       /\ The(respCookie'[r]).value = The(respCookie[r]).value
                       /\ store' = store
                 /\ (pc[r] = "saving" /\ AnswerStep(r))
                    => LET c == calls'[r][Len(calls'[r])]
                       IN  /\ keysIssued' = keysIssued
                           /\ c.op = "SETEX"
                           /\ c.name = LastSetex(r).name
                           /\ c.value = LastSetex(r).value
                           /\ Accepted(c)
                              => The(store'[c.name]).value = LastSetex(r).value
                           /\ \A o \in RecordNames \ {c.name} : store'[o] = store[o]
      ]_vars

C14_Witness ==
    \E r \in Reqs :
        /\ pc[r] = "saved"
        /\ session[r].identity # None
        /\ ~Empty(session[r])
        /\ Cardinality(SetexCalls(r)) = 2
        /\ \A i \in SetexCalls(r) : ~calls[r][i].failed
        /\ The(respCookie[r]).value = The(session[r].identity)
        /\ The(store[RecordName(The(key[r]))]).value = SaveData(session[r])
        /\ Cardinality({n \in RecordNames : store[n] # None}) = 1

\* C18: whatever the other requests are doing, load_session changes no record and
\* sends at most a GET at "{cookie_name}_{cookie value}"; save_session changes no
\* record but the one at "{cookie_name}_{key}"
C18_Frame ==
    [][\A r \in Reqs :
          /\ LoadStep(r)
             => /\ store' = store
                /\ \/ calls'[r] = calls[r]
                   \/ /\ Len(calls'[r]) = Len(calls[r]) + 1
                      /\ calls'[r][Len(calls'[r])].op = "GET"
                      /\ calls'[r][Len(calls'[r])].name = RecordName(The(reqCookie[r]))
          /\ CookieStep(r) => store' = store
          /\ WriteStep(r)
             => \A o \in RecordNames \ {RecordName(The(key[r]))} : store'[o] = store[o]
      ]_vars

C18_Witness ==
    \E r, q \in Reqs :
        /\ r # q
        /\ pc[r] = "saved"
        /\ pc[q] = "saving"
        /\ key[q] # key[r]
        /\ store[RecordName(The(key[r]))] # None
        /\ store[RecordName(The(key[q]))] # None
        /\ The(store[RecordName(The(key[q]))]).value # SaveData(session[q])

\* C19: a step of one request's load_session or save_session leaves the Session
\* every other request holds as it is, the two carrying the same cookie or not
C19_OwnSession ==
    [][\A r, q \in Reqs :
          (r # q /\ (LoadStep(q) \/ CookieStep(q) \/ WriteStep(q)))
          => session'[r] = session[r]
      ]_vars

C19_Witness ==
    \E r, q \in Reqs :
        /\ r # q
        /\ reqCookie[r] # None
        /\ reqCookie[r] = reqCookie[q]
        /\ pc[r] = "handled"
        /\ pc[q] = "saved"
        /\ session[r].identity = session[q].identity
        /\ session[r].identity # None
        /\ session[r].data # session[q].data

\* C20: a write of save_session puts exactly its own encoded session data at its
\* key, whatever was there and whoever else wrote it: the record at
\* "{cookie_name}_k" is always the payload of the one save that wrote there last
C20_LastWriterWins ==
    [][/\ \A r \in Reqs :
             (pc[r] = "saving" /\ AnswerStep(r) /\ Accepted(calls'[r][Len(calls'[r])]))
             => /\ store'[RecordName(The(key[r]))] # None
                /\ The(store'[RecordName(The(key[r]))]).value
                      = Encoder(GetSessionData(session[r]))
       /\ \A n \in RecordNames :
             store'[n] # store[n]
             => \E r \in Reqs :
                   /\ pc[r] = "saving"
                   /\ AnswerStep(r)
                   /\ n = RecordName(The(key[r]))
      ]_vars

C20_Witness ==
    \E r, q \in Reqs :
        /\ r # q
        /\ pc[r] = "saved"
        /\ pc[q] = "saved"
        /\ session[r].identity # None
        /\ session[r].identity = session[q].identity
        /\ calls[r][1].reply = calls[q][1].reply
        /\ SaveData(session[r]) # SaveData(session[q])
        /\ ~Empty(session[r])
        /\ calls[r][1].reply # Some(SaveData(session[r]))
        /\ ~calls[r][2].failed
        /\ key[r] = key[q]
        /\ The(store[RecordName(The(key[r]))]).value = SaveData(session[q])

====
